---- MODULE Spec2Model ----
(***************************************************************************)
(* aitios-surf: SurfaceBuilder (src/src/builder.rs), Surfel                *)
(* (src/src/surfel.rs) and the Surface that build() returns.               *)
(*                                                                         *)
(* Lengths are in tenths of a world unit, so MinimumDistance(0.1) is       *)
(* MinimumDistance(1).  Sequences are 1-based here and 0-based in the      *)
(* source: sample index i of the source is samples[i + 1].                 *)
(***************************************************************************)
EXTENDS Integers, Sequences, FiniteSets

VARIABLES
    phase,        \* "building": a SurfaceBuilder is alive; "built": build() returned a Surface; "panicked": a call unwound
    samples,      \* SurfaceBuilder.samples, moved into Surface.samples by build()
    sampling,     \* SurfaceBuilder.sampling
    spatial_idx,  \* Surface.spatial_idx: the entries of the KdTree
    store,        \* memory of the payloads: cell -> value of type D
    last,         \* the last call, its arguments, what the callee handed back and how it ended
    sampledIdx,   \* the 1-based indices that sample_triangles appended
    supplied,     \* the concatenation of every iterable given to add_samples
    samplingSet   \* whether sampling() was called on the builder

vars == <<phase, samples, sampling, spatial_idx, store, last, sampledIdx, supplied, samplingSet>>

\* ---------------------------------------------------------------- bounds

\* The most samples one builder accumulates.
MaxSamples == 2

\* The most samples one add_samples call supplies.
MaxBatch == 2

\* ---------------------------------------------------------------- scalars and vectors

\* An f32 of value v tenths.
F32(v) == [w |-> 32, nan |-> FALSE, v |-> v]

\* A non-finite f32.
NaN32 == [w |-> 32, nan |-> TRUE, v |-> 0]

\* `s.x as f64`: the widening conversion keeps the value and changes the width.
as_f64(s) == [w |-> 64, nan |-> s.nan, v |-> s.v]

is_finite(c) == ~c.nan

Vec3(x, y, z) == [x |-> x, y |-> y, z |-> z]

\* The positions with finite coordinates that the model draws from.
FinitePoints ==
    { Vec3(F32(0), F32(0), F32(0)),
      Vec3(F32(1), F32(0), F32(0)),
      Vec3(F32(0), F32(2), F32(0)) }

\* A position with a non-finite coordinate.
NaNPoint == Vec3(NaN32, F32(0), F32(0))

Points == FinitePoints \cup {NaNPoint}

\* The values of the payload type D (the test's SurfelData { prop }).
Payloads == {-1, 4}

\* Squared Euclidean distance of two positions, in squared tenths.
DistSq(a, b) ==
    (a.x.v - b.x.v) * (a.x.v - b.x.v)
    + (a.y.v - b.y.v) * (a.y.v - b.y.v)
    + (a.z.v - b.z.v) * (a.z.v - b.z.v)

\* ---------------------------------------------------------------- SurfelSampling

PerSqrUnit(density) == [kind |-> "PerSqrUnit", val |-> density]

MinimumDistance(min_dist) == [kind |-> "MinimumDistance", val |-> min_dist]

\* The f32 arguments a caller passes to either variant, in tenths.
StrategyValues == {1, 2}

SurfelSampling ==
    {PerSqrUnit(v) : v \in StrategyValues} \cup {MinimumDistance(v) : v \in StrategyValues}

\* The min_dist of the strategy new() installs: 0.1.
DefaultMinDist == 1

\* ---------------------------------------------------------------- Surfel

\* The cell holding the caller's prototype_surfel_data.
ProtoCell == 0

\* Surfel::new: the surfel owns its vertex and the payload stored in cell `data`.
Surfel_new(vertex, data) == [vertex |-> vertex, data |-> data]

\* Position for Surfel: the vertex's position (V is a bare position here).
position(s) == s.vertex

\* D::clone of the payload in cell `src`: the copy lives in the fresh cell.
clone_shares(src, fresh) == src

clone_cell(src, fresh) == fresh

\* The payload value of sample number j (1-based) under memory st.
payload(st, ss, j) == st[ss[j].data]

\* ---------------------------------------------------------------- the Poisson-disk sampler

SeqsUpTo(S, n) == UNION {[1..k -> S] : k \in 0..n}

\* No two points of s are closer than d.
Separated(s, d) ==
    \A i, j \in 1..Len(s) : i < j => DistSq(s[i], s[j]) >= d * d

\* No point of the triangles can be added to s without breaking Separated.
Maximal(s, triangles, d) ==
    \A p \in triangles : \E i \in 1..Len(s) : DistSq(p, s[i]) < d * d

\* sampling::into_poisson_disk_set: the sequences the external sampler may
\* return for a set of surface points and a minimum distance.
into_poisson_disk_set(triangles, min_dist) ==
    { s \in SeqsUpTo(triangles, Cardinality(triangles)) :
        Separated(s, min_dist) /\ Maximal(s, triangles, min_dist) }

\* The triangle streams a caller passes: the surface points they cover.
Meshes == SUBSET FinitePoints

\* ---------------------------------------------------------------- calls

\* A call record: what was called, how it ended, and what crossed the interface.
Call(op, outcome, err) ==
    [op |-> op, outcome |-> outcome, err |-> err,
     strategy |-> [kind |-> "", val |-> 0], pts |-> <<>>, d |-> 0,
     i |-> 0, q |-> Vec3(F32(0), F32(0), F32(0)), res |-> 0]

\* How unimplemented!() ends the call.
unimplemented_as_result == "err"

unimplemented == "panic"

\* How Result::unwrap ends the call on an Err.
unwrap_err == "panic"

\* ---------------------------------------------------------------- SurfaceBuilder

\* Vec::extend: the items go to the end, in iteration order.
extend_front(v, items) == items \o v

extend(v, items) == v \o items

\* The arm `match self.sampling` takes: whether it panics, and otherwise the
\* min_dist handed to the sampler and the points the sampler returns.
match_sampling_degrades(strategy, triangles) ==
    { [panic |-> FALSE, d |-> strategy.val, pts |-> s] :
        s \in into_poisson_disk_set(triangles, strategy.val) }

match_sampling_default_dist(strategy, triangles) ==
    IF strategy.kind = "MinimumDistance"
    THEN { [panic |-> FALSE, d |-> DefaultMinDist, pts |-> s] :
             s \in into_poisson_disk_set(triangles, DefaultMinDist) }
    ELSE { [panic |-> TRUE, d |-> 0, pts |-> <<>>] }

match_sampling(strategy, triangles) ==
    IF strategy.kind = "MinimumDistance"
    THEN { [panic |-> FALSE, d |-> strategy.val, pts |-> s] :
             s \in into_poisson_disk_set(triangles, strategy.val) }
    ELSE { [panic |-> TRUE, d |-> 0, pts |-> <<>>] }

\* .map(|v| Surfel::new(v, prototype_surfel_data.clone())) over the sampler's
\* points, n samples being accumulated already: point k gets the clone in cell n + k.
wrap_reversed(pts, n) ==
    [k \in 1..Len(pts) |->
        Surfel_new(pts[Len(pts) + 1 - k], clone_cell(ProtoCell, n + k))]

wrap(pts, n) ==
    [k \in 1..Len(pts) |-> Surfel_new(pts[k], clone_cell(ProtoCell, n + k))]

\* The memory after cells n + 1 .. n + Len(values) received `values`.
alloc(st, n, values) ==
    [c \in 0..(n + Len(values)) |-> IF c <= n THEN st[c] ELSE values[c - n]]

\* The samples a caller owns and hands to add_samples: a vertex and a payload value.
OwnedSurfels == [vertex : Points, value : Payloads]

\* SurfaceBuilder::new
new ==
    /\ phase' = "building"
    /\ samples' = <<>>
    /\ sampling' = MinimumDistance(DefaultMinDist)
    /\ spatial_idx' = {}
    /\ store' = [c \in {ProtoCell} |-> store[ProtoCell]]
    /\ last' = Call("new", "ok", "")
    /\ sampledIdx' = {}
    /\ supplied' = <<>>
    /\ samplingSet' = FALSE

\* SurfaceBuilder::sampling
sampling_resets(strategy) ==
    /\ phase = "building"
    /\ sampling' = strategy
    /\ samples' = <<>>
    /\ store' = [c \in {ProtoCell} |-> store[ProtoCell]]
    /\ sampledIdx' = {}
    /\ last' = [Call("sampling", "ok", "") EXCEPT !.strategy = strategy]
    /\ samplingSet' = TRUE
    /\ UNCHANGED <<phase, spatial_idx, supplied>>

sampling_call(strategy) ==
    /\ phase = "building"
    /\ sampling' = strategy
    /\ last' = [Call("sampling", "ok", "") EXCEPT !.strategy = strategy]
    /\ samplingSet' = TRUE
    /\ UNCHANGED <<phase, samples, spatial_idx, store, sampledIdx, supplied>>

\* SurfaceBuilder::add_samples
add_samples(batch) ==
    LET n == Len(samples) IN
    /\ phase = "building"
    /\ n + Len(batch) <= MaxSamples
    /\ samples' = extend(samples, [k \in 1..Len(batch) |-> Surfel_new(batch[k].vertex, n + k)])
    /\ store' = alloc(store, n, [k \in 1..Len(batch) |-> batch[k].value])
    /\ supplied' = supplied \o batch
    /\ last' = Call("add_samples", "ok", "")
    /\ UNCHANGED <<phase, sampling, spatial_idx, sampledIdx, samplingSet>>

\* SurfaceBuilder::sample_triangles
sample_triangles(triangles) ==
    LET n == Len(samples) IN
    /\ phase = "building"
    /\ \E m \in match_sampling(sampling, triangles) :
        IF m.panic
        THEN /\ phase' = "panicked"
             /\ last' = Call("sample_triangles", unimplemented, "NotImplemented")
             /\ UNCHANGED <<samples, sampling, spatial_idx, store, sampledIdx, supplied, samplingSet>>
        ELSE /\ n + Len(m.pts) <= MaxSamples
             /\ samples' = extend(samples, wrap(m.pts, n))
             /\ store' = alloc(store, n, [k \in 1..Len(m.pts) |-> store[ProtoCell]])
             /\ sampledIdx' = sampledIdx \cup ((n + 1)..(n + Len(m.pts)))
             /\ last' = [Call("sample_triangles", "ok", "") EXCEPT !.pts = m.pts, !.d = m.d]
             /\ UNCHANGED <<phase, sampling, spatial_idx, supplied, samplingSet>>

\* ---------------------------------------------------------------- build

\* [s.x as f64, s.y as f64, s.z as f64]
coords_x_twice(s) == <<as_f64(s.x), as_f64(s.x), as_f64(s.z)>>

coords(s) == <<as_f64(s.x), as_f64(s.y), as_f64(s.z)>>

\* The index .enumerate() pairs with the k-th sample (k is 1-based): zero-based.
enumerate_from_one(k) == k

enumerate_idx(k) == k - 1

\* KdTree::add: Err for a point with a non-finite coordinate, else the entry is stored.
KdTree_add(tree, point, data) ==
    IF \A c \in 1..Len(point) : is_finite(point[c])
    THEN [ok |-> TRUE, tree |-> tree \cup {[point |-> point, data |-> data]}]
    ELSE [ok |-> FALSE, tree |-> tree]

\* Result::unwrap on what add returned: a panic on Err.
unwrap_or_skip(r) == [panic |-> FALSE, tree |-> r.tree]

unwrap(r) == [panic |-> ~r.ok, tree |-> r.tree]

\* .for_each(|(idx, s)| tree.add(.., idx).unwrap()) from the k-th sample on.
RECURSIVE for_each_add(_, _, _)
for_each_add(ss, k, tree) ==
    IF k > Len(ss)
    THEN [panic |-> FALSE, tree |-> tree]
    ELSE LET u == unwrap(KdTree_add(tree, coords(position(ss[k])), enumerate_idx(k)))
         IN  IF u.panic
             THEN [panic |-> TRUE, tree |-> u.tree]
             ELSE for_each_add(ss, k + 1, u.tree)

\* What is left of the consumed builder's strategy once build() has moved the samples out.
Dropped == [kind |-> "dropped", val |-> 0]

\* SurfaceBuilder::build
build ==
    LET r == for_each_add(samples, 1, {}) IN
    /\ phase = "building"
    /\ IF r.panic
       THEN /\ phase' = "panicked"
            /\ spatial_idx' = {}
            /\ last' = Call("build", unwrap_err, "IndexConstructionFailure")
       ELSE /\ phase' = "built"
            /\ spatial_idx' = r.tree
            /\ last' = Call("build", "ok", "")
    /\ sampling' = Dropped
    /\ samplingSet' = FALSE
    /\ UNCHANGED <<samples, store, sampledIdx, supplied>>

\* ---------------------------------------------------------------- Surface

\* Surfel::data_mut on sample i of the Surface, followed by a write of v.
data_mut(i, v) ==
    /\ phase = "built"
    /\ i < Len(samples)
    /\ store' = [store EXCEPT ![samples[i + 1].data] = v]
    /\ last' = [Call("data_mut", "ok", "") EXCEPT !.i = i]
    /\ UNCHANGED <<phase, samples, sampling, spatial_idx, sampledIdx, supplied, samplingSet>>

\* The payloads of the entries of the tree closest to q.
NearestData(tree, q) ==
    { e.data : e \in { f \in tree :
        \A g \in tree : DistSq(Vec3(f.point[1], f.point[2], f.point[3]), q)
                        <= DistSq(Vec3(g.point[1], g.point[2], g.point[3]), q) } }

\* Surface's nearest-neighbour query at q: the index of a closest sample.
nearest(q) ==
    /\ phase = "built"
    /\ spatial_idx # {}
    /\ \E r \in NearestData(spatial_idx, q) :
        last' = [Call("nearest", "ok", "") EXCEPT !.q = q, !.res = r]
    /\ UNCHANGED <<phase, samples, sampling, spatial_idx, store, sampledIdx, supplied, samplingSet>>

\* ---------------------------------------------------------------- specification

Init ==
    /\ phase = "building"
    /\ samples = <<>>
    /\ sampling = MinimumDistance(DefaultMinDist)
    /\ spatial_idx = {}
    /\ store \in [{ProtoCell} -> Payloads]
    /\ last = Call("new", "ok", "")
    /\ sampledIdx = {}
    /\ supplied = <<>>
    /\ samplingSet = FALSE

Next ==
    \/ new
    \/ \E strategy \in SurfelSampling : sampling_call(strategy)
    \/ \E batch \in SeqsUpTo(OwnedSurfels, MaxBatch) : add_samples(batch)
    \/ \E triangles \in Meshes : sample_triangles(triangles)
    \/ build
    \/ \E i \in 0..(MaxSamples - 1), v \in Payloads : data_mut(i, v)
    \/ \E q \in FinitePoints : nearest(q)

Spec == Init /\ [][Next]_vars

\* ---------------------------------------------------------------- properties

\* a == b on floats: both are numbers and their values agree.
SameNumber(a, b) == ~a.nan /\ ~b.nan /\ a.v = b.v

\* The tree coordinate equals the position.
SameCoords(point, pos) ==
    /\ SameNumber(point[1], pos.x)
    /\ SameNumber(point[2], pos.y)
    /\ SameNumber(point[3], pos.z)

\* Two positions are equal.
SamePos(a, b) == SameNumber(a.x, b.x) /\ SameNumber(a.y, b.y) /\ SameNumber(a.z, b.z)

\* The zero-based indices of the samples.
Indices == 0..(Len(samples) - 1)

\* Every sample has an entry at its position whose payload is its index.
IndexCoversSamples ==
    \A i \in Indices :
        \E e \in spatial_idx : e.data = i /\ SameCoords(e.point, position(samples[i + 1]))

\* C1: in every Surface build() returned, also after payload writes through
\* data_mut, the spatial index holds for every sample index i an entry at
\* samples[i].position() with payload i.
C1_IndexInvariant == phase = "built" => IndexCoversSamples

C1_Witness ==
    /\ phase = "built"
    /\ last.op = "data_mut"
    /\ Len(samples) = 2
    /\ sampledIdx = {2}
    /\ payload(store, samples, 1) # supplied[1].value

\* C2: when no sample came from triangle sampling, the Surface's samples are
\* the concatenation of the iterables given to add_samples, in call and
\* iteration order: same length, same vertices, and at the return of build()
\* the same payloads.
C2_AddedSamplesVerbatim ==
    (phase = "built" /\ sampledIdx = {}) =>
        /\ Len(samples) = Len(supplied)
        /\ \A k \in 1..Len(samples) :
            /\ samples[k].vertex = supplied[k].vertex
            /\ last.op = "build" => payload(store, samples, k) = supplied[k].value

C2_Witness ==
    /\ phase = "built"
    /\ last.op = "build"
    /\ sampledIdx = {}
    /\ Len(supplied) = 2
    /\ supplied[1].vertex # supplied[2].vertex
    /\ supplied[1].value # supplied[2].value

\* C3 as stated: a nearest-neighbour query at the exact position of the sample
\* at index i returns i, for every sample of a built Surface.
C3_SelfLookupReturnsOwnIndex ==
    last.op = "nearest" =>
        \A i \in Indices : SamePos(position(samples[i + 1]), last.q) => last.res = i

\* C3, amended: a nearest-neighbour query at the exact position of the sample
\* at index i returns the index of a sample at that same position; it is i
\* whenever no other sample shares the position.
C3_SelfLookupReturnsSamePosition ==
    last.op = "nearest" =>
        \A i \in Indices :
            SamePos(position(samples[i + 1]), last.q) =>
                /\ last.res \in Indices
                /\ SamePos(position(samples[last.res + 1]), last.q)
                /\ (\A j \in Indices \ {i} :
                        ~SamePos(position(samples[j + 1]), last.q)) => last.res = i

C3_Witness ==
    /\ last.op = "nearest"
    /\ Len(samples) = 2
    /\ SamePos(position(samples[1]), last.q)
    /\ SamePos(position(samples[2]), last.q)
    /\ last.res = 1

\* C4: a sample_triangles call under MinimumDistance leaves the accumulated
\* samples and their payloads as they were and appends one Surfel per point
\* the sampler returned, in the sampler's order, each with a payload equal to
\* the prototype's; and when build() returns, every triangle-sampled surfel's
\* payload equals the prototype.
C4_SampleTrianglesAppends ==
    [][ /\ (last'.op = "sample_triangles" /\ last'.outcome = "ok") =>
            LET n == Len(samples)
                pts == last'.pts
            IN  /\ Len(samples') = n + Len(pts)
                /\ SubSeq(samples', 1, n) = samples
                /\ \A j \in 1..n : payload(store', samples', j) = payload(store, samples, j)
                /\ store'[ProtoCell] = store[ProtoCell]
                /\ \A k \in 1..Len(pts) :
                    /\ position(samples'[n + k]) = pts[k]
                    /\ payload(store', samples', n + k) = store[ProtoCell]
        /\ (last'.op = "build" /\ phase' = "built") =>
            \A j \in sampledIdx' : payload(store', samples', j) = store'[ProtoCell]
      ]_vars

C4_Witness ==
    /\ last.op = "sample_triangles"
    /\ last.outcome = "ok"
    /\ Len(last.pts) = 1
    /\ Len(samples) = 2
    /\ sampledIdx = {2}
    /\ payload(store, samples, 1) # store[ProtoCell]

Rejects(ss) ==
    \E k \in 1..Len(ss) :
        LET p == position(ss[k]) IN p.x.nan \/ p.y.nan \/ p.z.nan

\* C6: build() is all-or-nothing. When the index rejects a sample's
\* coordinate, build() fails and no Surface and no index exist; otherwise the
\* Surface holds every accumulated sample, unchanged, and the index holds
\* exactly one entry per sample. No Surface ever lacks an index entry.
C6_BuildAllOrNothing ==
    [][ /\ last'.op = "build" =>
            IF Rejects(samples)
            THEN /\ phase' = "panicked"
                 /\ last'.outcome # "ok"
                 /\ spatial_idx' = {}
            ELSE /\ phase' = "built"
                 /\ last'.outcome = "ok"
                 /\ samples' = samples
                 /\ store' = store
        /\ phase' = "built" =>
            /\ IndexCoversSamples'
            /\ Cardinality(spatial_idx') = Len(samples')
      ]_vars

C6_Witness ==
    /\ phase = "panicked"
    /\ last.op = "build"
    /\ Len(samples) = 2
    /\ ~Rejects(<<samples[1]>>)
    /\ Rejects(<<samples[2]>>)
    /\ spatial_idx = {}

\* C7: the samples one sample_triangles call appends under MinimumDistance(d)
\* lie pairwise at Euclidean distance >= d, d being the builder's active
\* min_dist.
C7_MinimumDistanceKept ==
    (last.op = "sample_triangles" /\ last.outcome = "ok") =>
        LET n == Len(samples) - Len(last.pts) IN
        \A i, j \in (n + 1)..Len(samples) :
            i < j =>
                DistSq(position(samples[i]), position(samples[j]))
                    >= sampling.val * sampling.val

C7_Witness ==
    /\ last.op = "sample_triangles"
    /\ last.outcome = "ok"
    /\ sampling = MinimumDistance(2)
    /\ Len(last.pts) = 2
    /\ sampledIdx = {1, 2}

\* C8: a write through data_mut to one sample that sample_triangles produced
\* leaves the payload of every other sample and the prototype payload as
\* they were.
C8_PayloadIndependence ==
    [][ (last'.op = "data_mut" /\ (last'.i + 1) \in sampledIdx) =>
            /\ store'[ProtoCell] = store[ProtoCell]
            /\ \A j \in 1..Len(samples) :
                j # last'.i + 1 => payload(store', samples', j) = payload(store, samples, j)
      ]_vars

C8_Witness ==
    /\ last.op = "data_mut"
    /\ sampledIdx = {1, 2}
    /\ last.i = 0
    /\ payload(store, samples, 1) # store[ProtoCell]
    /\ payload(store, samples, 2) = store[ProtoCell]

\* C9 as stated: every failure of this layer reaches the caller as an
\* explicit failure result, not as a panic.
C9_FailuresAreResults == last.err # "" => last.outcome = "err"

\* C9, amended: NotImplemented (sample_triangles under PerSqrUnit) and
\* IndexConstructionFailure (build with a rejected coordinate) reach the
\* caller as a panic that unwinds out of the call: the call returns no
\* builder, no Surface and no failure value.
C9_FailuresArePanics ==
    [][ /\ (phase = "building" /\ sampling.kind = "PerSqrUnit" /\ last'.op = "sample_triangles") =>
            (last'.err = "NotImplemented" /\ last'.outcome = "panic")
        /\ (last'.op = "build" /\ Rejects(samples)) =>
            (last'.err = "IndexConstructionFailure" /\ last'.outcome = "panic")
        /\ last'.err # "" => (last'.outcome = "panic" /\ phase' = "panicked" /\ spatial_idx' = {})
        /\ last'.err = "" => (last'.outcome = "ok" /\ phase' # "panicked")
      ]_vars

C9_Witness ==
    /\ phase = "panicked"
    /\ last.outcome = "panic"
    /\ last.err = "NotImplemented"
    /\ samplingSet
    /\ samples = <<>>

\* C10: sampling(strategy) installs the strategy and leaves the accumulated
\* samples, their payloads and their origin as they were; a builder on which
\* sampling was never called holds MinimumDistance(0.1) and samples with it.
C10_SamplingOnlySetsStrategy ==
    [][ /\ last'.op = "sampling" =>
            /\ sampling' = last'.strategy
            /\ samples' = samples
            /\ store' = store
            /\ sampledIdx' = sampledIdx
            /\ phase' = phase
        /\ (phase' = "building" /\ ~samplingSet') => sampling' = MinimumDistance(DefaultMinDist)
        /\ (last'.op = "sample_triangles" /\ last'.outcome = "ok" /\ ~samplingSet) =>
            last'.d = DefaultMinDist
      ]_vars

C10_Witness ==
    /\ last.op = "sampling"
    /\ sampling = PerSqrUnit(2)
    /\ Len(samples) = 2
    /\ sampledIdx = {1}

====
